---- MODULE Spec2Model ----
(***************************************************************************)
(* State-machine model of scrapper.py (Paper_Guider): the crawl driven by  *)
(* main over one Selenium session.                                         *)
(*                                                                         *)
(*   main -> fetch_initial_data, setup_driver,                             *)
(*           process_topic_link -> process_method_image                    *)
(*                              -> process_black_links                     *)
(*                              -> extract_text_from_page                  *)
(*                                                                         *)
(* The program is one thread; pc is its position.  The web site is the     *)
(* environment: what a page shows is chosen when the page is loaded.       *)
(* time.sleep and print change no state and are left out.                  *)
(***************************************************************************)
EXTENDS Naturals, Sequences, FiniteSets

(* ------------------------------ bounds --------------------------------- *)
\* topic cards in the catalog
MaxTopics == 2
\* distinct topic links the cards can resolve to
MaxTopicLinks == 2
\* method-image containers on a topic page
MaxDivs == 2
\* distinct group links the containers can resolve to
MaxGroupLinks == 2
\* real pages of a listing
MaxPages == 11
\* paper links on one listing page
MaxLinks == 3
\* characters in the first cell of a table row
MaxCellLen == 6

(* ------------------------- program constants --------------------------- *)
\* while page_counter < 10
PageCap == 10
\* find_elements(...)[:20]
GroupCap == 20

(* ------------------------------ helpers -------------------------------- *)
\* faulty variant: d.setdefault(k, v), the first value of a key is kept
Put_KeepFirst(d, k, v) ==
    [x \in (DOMAIN d) \cup {k} |-> IF x \in DOMAIN d THEN d[x] ELSE v]

\* d[k] = v on a Python dict modelled as a function
Put(d, k, v) == [x \in (DOMAIN d) \cup {k} |-> IF x = k THEN v ELSE d[x]]

\* faulty variant: the slice is missing
Take_All(s, n) == s

\* s[:n]
Take(s, n) == SubSeq(s, 1, IF Len(s) < n THEN Len(s) ELSE n)

\* sequences over S of length 0..n
SeqsUpTo(S, n) == UNION {[1..k -> S] : k \in 0..n}

\* {}
EmptyDict == <<>>

\* "" : a sequence of zero characters
EmptyString == <<>>

\* title.text.strip() / p_elem.text.strip() of the paper behind url
Title(url) == <<"title", url[1], url[2]>>
Text(url) == <<"abstract", url[1], url[2]>>

(* ------------------------------ strings -------------------------------- *)
\* a string is the sequence of its characters; "x" stands for any character
\* that is not white space
Chars == {"x", " ", "\n"}
WhiteSpace == {" ", "\n"}

\* "\n\n\n"
Separator == <<"\n", "\n", "\n">>

\* None
None == <<>>
\* a value that is not None
Some(v) == <<v>>

\* str.lstrip(), str.rstrip(), str.strip()
RECURSIVE LStrip(_)
LStrip(s) ==
    IF s = <<>> THEN s
    ELSE IF Head(s) \in WhiteSpace THEN LStrip(Tail(s)) ELSE s

RECURSIVE RStrip(_)
RStrip(s) ==
    IF s = <<>> THEN s
    ELSE IF s[Len(s)] \in WhiteSpace THEN RStrip(SubSeq(s, 1, Len(s) - 1))
    ELSE s

Strip(s) == RStrip(LStrip(s))

\* s.find(p) scanning from position i (1-based); 0 when p does not occur
RECURSIVE Find(_, _, _)
Find(s, p, i) ==
    IF i + Len(p) - 1 > Len(s) THEN 0
    ELSE IF SubSeq(s, i, i + Len(p) - 1) = p THEN i
    ELSE Find(s, p, i + 1)

\* p in s
Contains(s, p) == Find(s, p, 1) # 0

\* faulty variant: s.rsplit(p, 1), the cut is at the last occurrence
SplitOnce_Last(s, p) ==
    LET At(i) == i + Len(p) - 1 <= Len(s) /\ SubSeq(s, i, i + Len(p) - 1) = p
        i == CHOOSE k \in 1..Len(s) :
                At(k) /\ \A j \in (k + 1)..Len(s) : ~At(j)
    IN <<SubSeq(s, 1, i - 1), SubSeq(s, i + Len(p), Len(s))>>

\* s.split(p, 1) for a string that contains p
SplitOnce(s, p) ==
    LET i == Find(s, p, 1)
    IN <<SubSeq(s, 1, i - 1), SubSeq(s, i + Len(p), Len(s))>>

VARIABLES
    pc,                     \* position of the single thread
    exc,                    \* an exception is propagating out of the try of main
    extracted_info,         \* main: list of topic summaries
    index,                  \* main: position of the for loop (1-based)
    overall_results,        \* main: dict topic_link -> topic results
    saved_files,            \* the documents written by save_results, in order
    session,                \* "none" | "open" | "quit"
    quit_calls,             \* number of driver.quit() calls
    alive,                  \* the browser still answers (FALSE: every call raises)
    tabs,                   \* window_handles: tabs[h] is what tab h shows
    current,                \* focused handle, 0 when the focused tab was closed
    crawl_log,              \* topic urls process_topic_link was called with
    crawl_rets,             \* what the calls of process_topic_link returned
    catalog,                \* the cards of the catalog page that was fetched
    methods,                \* main: list of method rows
    results,                \* process_topic_link: dict group link -> pages
    topic_page,             \* the containers the loaded topic page shows
    method_divs,            \* process_topic_link: containers ([:20]), 0 = no <a>
    div_i,                  \* process_topic_link: position of the first for loop
    method_links,           \* process_topic_link: extracted links
    link_i,                 \* process_topic_link: position of the second for loop
    harvest_log,            \* calls of process_method_image of this topic crawl
    extracted_titles_texts, \* process_method_image: list of page entries
    page_counter,           \* process_method_image
    seen,                   \* listing pages loaded so far in this harvest
    extracted_texts,        \* process_black_links: {"title": [], "text": []}
    urls,                   \* process_black_links
    url_i,                  \* process_black_links: position of the for loop
    original_window,        \* process_black_links
    open_log,               \* urls opened in a tab in this call, in order
    ret                     \* value returned by extract_text_from_page

mainVars == <<extracted_info, index, overall_results, saved_files, crawl_log,
              crawl_rets, catalog, methods>>
driverVars == <<session, quit_calls, alive, tabs, current>>
topicVars == <<results, topic_page, method_divs, div_i, method_links, link_i,
               harvest_log>>
imageVars == <<extracted_titles_texts, page_counter, seen>>
linkVars == <<extracted_texts, urls, url_i, original_window, open_log, ret>>
vars == <<pc, exc, mainVars, driverVars, topicVars, imageVars, linkVars>>

(* ---------------------------- the web site ----------------------------- *)
\* catalogs fetch_initial_data can meet: one topic_link per card
Catalogs == SeqsUpTo([topic_link : 1..MaxTopicLinks], MaxTopics)

\* A card of the catalog page: the topic its <h1> and <a> name, whether
\* the two text-muted count containers are there, and the <td> texts of the
\* <tr> rows of its table (no table: no rows).
\* the cards of a catalog without tables
CardsOf(c) ==
    [i \in 1..Len(c) |->
        [link |-> c[i].topic_link, counts |-> TRUE, rows |-> <<>>]]

\* texts of the first <td> of a row
ExtraCells ==
    {<<"x", "\n", "\n", "\n", "x", "\n", "\n", "\n", "x">>,
     <<" ", "x", " ", "\n", "\n", "\n", " ", "x", " ">>}
Cells == SeqsUpTo(Chars, MaxCellLen) \cup ExtraCells

\* texts of the second and the later <td>
YearCell == <<" ", "x">>
CountCell == <<"x", "x", "\n">>
RowTails == {<<>>, <<YearCell>>, <<YearCell, CountCell>>,
             <<YearCell, CountCell, CountCell>>}

\* a few whole rows for tables of several rows and for several cards
SmallRows ==
    {<<<<"x">>, YearCell>>,
     <<<<"x">>, YearCell, CountCell>>,
     <<<<"x", "\n", "\n", "\n", "x", "x">>, YearCell, CountCell>>}

\* catalog pages of one card with a table of one row or of two rows
TablePages ==
    {<<[link |-> 1, counts |-> TRUE, rows |-> <<<<c>> \o t>>]>> :
        c \in Cells, t \in RowTails}
    \cup {<<[link |-> 1, counts |-> TRUE, rows |-> <<r1, r2>>]>> :
        r1 \in SmallRows, r2 \in SmallRows}

\* catalog pages whose cards can lack the count containers and can have a
\* table of one row
CardPages ==
    SeqsUpTo([link : 1..MaxTopicLinks, counts : BOOLEAN,
              rows : SeqsUpTo(SmallRows, 1)],
             MaxTopics)

CatalogPages == {CardsOf(c) : c \in Catalogs} \cup TablePages \cup CardPages

\* the catalog has no table and no defective card
Plain(page) == \A i \in 1..Len(page) : page[i].counts /\ page[i].rows = <<>>

\* The crawl is explored in depth along one spine: it follows a plain catalog
\* only; after any other catalog every topic page is empty.
\* Of the plain catalogs, the one of one topic shows every topic page, and
\* its listings are arbitrary when that page has a single container;
\* elsewhere pages are small.
\* Topic pages at and over the cap of 20 containers: the group links repeat
\* in turn and at most one container (the b-th) has no <a>.
LongTopicPages ==
    {[i \in 1..n |-> IF i = b THEN 0 ELSE ((i - 1) % MaxGroupLinks) + 1] :
        n \in GroupCap..(GroupCap + 1), b \in 0..(GroupCap + 1)}

TopicPages ==
    IF ~Plain(catalog) THEN {<<>>}
    ELSE IF Len(extracted_info) = 1
        THEN SeqsUpTo(0..MaxGroupLinks, MaxDivs) \cup LongTopicPages
        ELSE {<<>>, <<1>>}

Deep == Len(extracted_info) = 1 /\ Len(method_divs) = 1

\* the harvests of a long topic page meet one listing only
Long == Len(method_divs) > MaxDivs

\* what listing page k can show: its number of paper links, the links whose
\* paper page does not render, and its next control
\*   "active": a next page exists; "absent": last page, no clickable control;
\*   "disabled": last page, control carries the disabled marker
NextKinds == {"active", "absent", "disabled"}

ListingPages(k) ==
    IF Deep
        THEN {p \in [links : (IF k = 1 THEN 0..MaxLinks ELSE {seen[1].links}),
                     bad : SUBSET (1..MaxLinks),
                     next : NextKinds] :
                /\ p.bad \subseteq 1..p.links
                /\ p.next = "active" => k < MaxPages}
        ELSE {[links |-> 1, bad |-> b, next |-> "absent"] :
                b \in (IF Long THEN {{}} ELSE SUBSET {1})}

\* a paper page: which of the elements read by extract_text_from_page exist
PaperPages == [abstract : BOOLEAN, title : BOOLEAN, text : BOOLEAN]
Renders(p) == p.abstract /\ p.title /\ p.text

(* ------------------------------- Init ---------------------------------- *)
Init ==
    /\ pc = "fetch"
    /\ exc = FALSE
    /\ extracted_info = <<>>
    /\ index = 1
    /\ overall_results = EmptyDict
    /\ saved_files = <<>>
    /\ session = "none"
    /\ quit_calls = 0
    /\ alive = FALSE
    /\ tabs = <<>>
    /\ current = 0
    /\ crawl_log = <<>>
    /\ crawl_rets = <<>>
    /\ catalog = <<>>
    /\ methods = <<>>
    /\ results = EmptyDict
    /\ topic_page = <<>>
    /\ method_divs = <<>>
    /\ div_i = 1
    /\ method_links = <<>>
    /\ link_i = 1
    /\ harvest_log = <<>>
    /\ extracted_titles_texts = <<>>
    /\ page_counter = 0
    /\ seen = <<>>
    /\ extracted_texts = [title |-> <<>>, text |-> <<>>]
    /\ urls = <<>>
    /\ url_i = 1
    /\ original_window = 0
    /\ open_log = <<>>
    /\ ret = EmptyString

(* ------------------------------- main ---------------------------------- *)
\* an exception leaves the try block of main: the finally clause runs next
Raise ==
    /\ pc' = "finally"
    /\ exc' = TRUE

\* lines 170-185: one <tr> of the table of a card; a row of fewer than three
\* cells adds nothing
ParseRow(topic_name, row) ==
    LET cols == [i \in 1..Len(row) |-> Strip(row[i])]
        parts == IF Contains(cols[1], Separator)
                    THEN LET sp == SplitOnce(cols[1], Separator)
                         IN [method_name |-> sp[1], paper |-> Some(sp[2])]
                    ELSE [method_name |-> cols[1], paper |-> None]
    IN IF Len(cols) >= 3
          THEN <<[topic_name |-> topic_name,
                  method |-> Strip(parts.method_name),
                  year |-> cols[2],
                  num_papers |-> cols[3],
                  paper_name |-> parts.paper]>>
          ELSE <<>>

\* lines 168-185: the rows of one table, in order
RECURSIVE ParseRows(_, _)
ParseRows(topic_name, rows) ==
    IF rows = <<>> THEN <<>>
    ELSE ParseRow(topic_name, Head(rows)) \o ParseRows(topic_name, Tail(rows))

\* lines 152-186: the method rows get_topic_method_info appends for one card
GetTopicMethodInfo(card) == ParseRows(card.link, card.rows)

\* lines 205-226: the cards in order, from the lists built so far; reading
\* the counts of a card that has no count container raises, nothing catches
\* it, and the lists are lost
RECURSIVE FetchCards(_, _, _)
FetchCards(cards, info, methods_list) ==
    IF cards = <<>>
        THEN [raised |-> FALSE, info |-> info, methods |-> methods_list]
    ELSE IF ~Head(cards).counts
        THEN [raised |-> TRUE, info |-> <<>>, methods |-> <<>>]
    ELSE FetchCards(Tail(cards),
                    Append(info, [topic_link |-> Head(cards).link]),
                    methods_list \o GetTopicMethodInfo(Head(cards)))

\* line 250: extracted_info, methods = fetch_initial_data(); an error of the
\* static fetch is not caught anywhere and ends the process
FetchInitialData ==
    /\ pc = "fetch"
    /\ \/ /\ pc' = "crashed"
          /\ UNCHANGED <<extracted_info, catalog, methods>>
       \/ \E page \in CatalogPages :
            LET r == FetchCards(page, <<>>, <<>>)
            IN /\ catalog' = page
               /\ IF r.raised
                     THEN /\ pc' = "crashed"
                          /\ UNCHANGED <<extracted_info, methods>>
                     ELSE /\ extracted_info' = r.info
                          /\ methods' = r.methods
                          /\ pc' = "setup"
    /\ overall_results' = EmptyDict
    /\ UNCHANGED <<exc, index, saved_files, crawl_log, crawl_rets, driverVars,
                   topicVars, imageVars, linkVars>>

\* line 254: driver = setup_driver()
SetupDriver ==
    /\ pc = "setup"
    /\ \/ /\ pc' = "crashed"
          /\ UNCHANGED <<session, alive, tabs, current>>
       \/ /\ session' = "open"
          /\ alive' = TRUE
          /\ tabs' = <<"blank">>
          /\ current' = 1
          /\ pc' = "loop"
    /\ index' = 1
    /\ UNCHANGED <<exc, extracted_info, overall_results, saved_files, crawl_log,
                   crawl_rets, catalog, methods, quit_calls, topicVars,
                   imageVars, linkVars>>

\* lines 256-260, 263-264: one turn of the for loop up to the call
MainLoop ==
    /\ pc = "loop"
    /\ IF index <= Len(extracted_info)
          THEN IF extracted_info[index].topic_link # 0
                 THEN /\ pc' = "ptl_get"
                      /\ crawl_log' = Append(crawl_log,
                                             extracted_info[index].topic_link)
                      /\ index' = index
                 ELSE /\ pc' = "loop"
                      /\ index' = index + 1
                      /\ UNCHANGED crawl_log
          ELSE /\ pc' = "finally"
               /\ UNCHANGED <<index, crawl_log>>
    /\ UNCHANGED <<exc, extracted_info, overall_results, saved_files,
                   crawl_rets, catalog, methods, driverVars, topicVars,
                   imageVars, linkVars>>

\* faulty variant: driver.quit() after the loop, without try/finally
Finally_NoFinally ==
    /\ pc = "finally"
    /\ IF exc
          THEN /\ pc' = "crashed"
               /\ UNCHANGED <<session, quit_calls>>
          ELSE /\ session' = "quit"
               /\ quit_calls' = quit_calls + 1
               /\ pc' = "save"
    /\ UNCHANGED <<exc, mainVars, alive, tabs, current, topicVars, imageVars,
                   linkVars>>

\* faulty variant: the exception is swallowed (except: pass) and main goes on
Finally_Swallow ==
    /\ pc = "finally"
    /\ session' = "quit"
    /\ quit_calls' = quit_calls + 1
    /\ pc' = "save"
    /\ UNCHANGED <<exc, mainVars, alive, tabs, current, topicVars, imageVars,
                   linkVars>>

\* lines 265-266: finally: driver.quit(); a propagating exception then
\* leaves main
Finally ==
    /\ pc = "finally"
    /\ session' = "quit"
    /\ quit_calls' = quit_calls + 1
    /\ pc' = IF exc THEN "crashed" ELSE "save"
    /\ UNCHANGED <<exc, mainVars, alive, tabs, current, topicVars, imageVars,
                   linkVars>>

\* lines 273-277
FinalData ==
    [topics_info |-> extracted_info, methods_info |-> methods,
     detailed_results |-> overall_results]

\* lines 269-282 with save_results (230-242): the write can fail, which is
\* caught and printed
SaveResults ==
    /\ pc = "save"
    /\ \/ saved_files' = Append(saved_files, FinalData)
       \/ UNCHANGED saved_files
    /\ pc' = "done"
    /\ UNCHANGED <<exc, extracted_info, index, overall_results, crawl_log,
                   crawl_rets, catalog, methods, driverVars, topicVars,
                   imageVars, linkVars>>

(* ------------------------ process_topic_link --------------------------- *)
\* faulty variant: the wait for the containers is not inside a try
ProcessTopicLinkGet_NoTry ==
    /\ pc = "ptl_get"
    /\ results' = EmptyDict
    /\ method_links' = <<>>
    /\ div_i' = 1
    /\ link_i' = 1
    /\ harvest_log' = <<>>
    /\ \/ /\ ~alive
          /\ Raise
          /\ UNCHANGED <<alive, tabs, topic_page, method_divs>>
       \/ /\ alive
          /\ alive' = FALSE
          /\ Raise
          /\ UNCHANGED <<tabs, topic_page, method_divs>>
       \/ /\ alive
          /\ \E page \in TopicPages :
                /\ tabs' = [tabs EXCEPT ![current] = "topic"]
                /\ topic_page' = page
                /\ method_divs' = Take(page, GroupCap)
                /\ IF page = <<>>
                      THEN Raise
                      ELSE pc' = "ptl_divs" /\ UNCHANGED exc
          /\ UNCHANGED alive
    /\ UNCHANGED <<mainVars, session, quit_calls, current, imageVars, linkVars>>

\* lines 123-133: results = {}; driver.get(topic_url), which is outside every
\* try; wait for the method-image containers; take the first 20
ProcessTopicLinkGet ==
    /\ pc = "ptl_get"
    /\ results' = EmptyDict
    /\ method_links' = <<>>
    /\ div_i' = 1
    /\ link_i' = 1
    /\ harvest_log' = <<>>
    /\ \/ /\ ~alive
          /\ Raise
          /\ UNCHANGED <<alive, tabs, topic_page, method_divs>>
       \/ /\ alive
          /\ alive' = FALSE
          /\ Raise
          /\ UNCHANGED <<tabs, topic_page, method_divs>>
       \/ /\ alive
          /\ \E page \in TopicPages :
                /\ tabs' = [tabs EXCEPT ![current] = "topic"]
                /\ topic_page' = page
                /\ method_divs' = Take(page, GroupCap)
                /\ pc' = IF page = <<>> THEN "ptl_ret" ELSE "ptl_divs"
          /\ UNCHANGED <<exc, alive>>
    /\ UNCHANGED <<mainVars, session, quit_calls, current, imageVars, linkVars>>

\* faulty variant: the harvest starts as soon as a link was read
ProcessTopicLinkDivs_Interleaved ==
    /\ pc = "ptl_divs"
    /\ IF div_i <= Len(method_divs)
          THEN /\ method_links' = IF method_divs[div_i] = 0
                                     THEN method_links
                                     ELSE Append(method_links, method_divs[div_i])
               /\ div_i' = div_i + 1
               /\ pc' = IF method_divs[div_i] = 0 THEN pc ELSE "ptl_links"
          ELSE /\ pc' = "ptl_links"
               /\ UNCHANGED <<method_links, div_i>>
    /\ UNCHANGED <<exc, mainVars, driverVars, results, topic_page, method_divs,
                   link_i, harvest_log,
                   imageVars, linkVars>>

\* lines 135-143: one turn of the loop over method_divs; a container without
\* an <a> raises inside the try and is skipped
ProcessTopicLinkDivs ==
    /\ pc = "ptl_divs"
    /\ IF div_i <= Len(method_divs)
          THEN /\ method_links' = IF method_divs[div_i] = 0
                                     THEN method_links
                                     ELSE Append(method_links, method_divs[div_i])
               /\ div_i' = div_i + 1
               /\ pc' = pc
          ELSE /\ pc' = "ptl_links"
               /\ UNCHANGED <<method_links, div_i>>
    /\ UNCHANGED <<exc, mainVars, driverVars, results, topic_page, method_divs,
                   link_i, harvest_log,
                   imageVars, linkVars>>

\* lines 145-147: one turn of the loop over method_links up to the call
ProcessTopicLinkLinks ==
    /\ pc = "ptl_links"
    /\ IF link_i <= Len(method_links)
          THEN /\ pc' = "pmi_get"
               /\ harvest_log' = Append(harvest_log,
                                        [link |-> method_links[link_i],
                                         pages |-> <<>>, done |-> FALSE])
          ELSE /\ pc' = "ptl_ret"
               /\ UNCHANGED harvest_log
    /\ UNCHANGED <<exc, mainVars, driverVars, results, topic_page, method_divs,
                   div_i, method_links, link_i, imageVars, linkVars>>

\* line 149 and lines 260-262: return results;
\* overall_results[topic_url] = topic_results
ProcessTopicLinkReturn ==
    /\ pc = "ptl_ret"
    /\ overall_results' = Put(overall_results,
                              extracted_info[index].topic_link, results)
    /\ crawl_rets' = Append(crawl_rets, results)
    /\ index' = index + 1
    /\ pc' = "loop"
    /\ results' = EmptyDict
    /\ method_links' = <<>>
    /\ div_i' = 1
    /\ link_i' = 1
    /\ harvest_log' = <<>>
    /\ UNCHANGED <<exc, extracted_info, saved_files, crawl_log, catalog,
                   methods, driverVars, topic_page, method_divs, imageVars,
                   linkVars>>

(* ----------------------- extract_text_from_page ------------------------ *)
\* faulty variant: the failure path returns a pair of empty strings ("", "")
ExtractTextFromPage_Placeholder(page, url) ==
    IF Renders(page) THEN <<Title(url), Text(url)>>
    ELSE <<EmptyString, EmptyString>>

\* lines 31-43: the pair (title, text) when the abstract container, the title
\* container and the inner text node are all found, "" on any exception
ExtractTextFromPage(page, url) ==
    IF Renders(page) THEN <<Title(url), Text(url)>> ELSE EmptyString

(* ------------------------ process_black_links -------------------------- *)
\* the listing page the focused tab shows
CurrentPage == seen[Len(seen)]

\* the focused tab answers and shows the listing
OnListing == alive /\ current # 0 /\ tabs[current] = "listing"

\* faulty variant: the append to the text list is missing
AppendPair_TitleOnly(et, title, text) ==
    [title |-> Append(et.title, title), text |-> et.text]

\* lines 72-73
AppendPair(et, title, text) ==
    [title |-> Append(et.title, title), text |-> Append(et.text, text)]

\* faulty variant: a page without links ends the harvest with what has been
\* collected, the entry of that page left out
ProcessBlackLinksCollect_Break ==
    /\ pc = "pbl_collect"
    /\ extracted_texts' = [title |-> <<>>, text |-> <<>>]
    /\ url_i' = 1
    /\ open_log' = <<>>
    /\ IF OnListing /\ CurrentPage.links > 0
          THEN /\ urls' = [i \in 1..CurrentPage.links |-> <<Len(seen), i>>]
               /\ original_window' = current
               /\ pc' = "pbl_open"
          ELSE /\ urls' = <<>>
               /\ pc' = "pmi_ret"
               /\ UNCHANGED original_window
    /\ UNCHANGED <<exc, mainVars, driverVars, topicVars, imageVars, ret>>

\* lines 52-65: wait for the paper links, collect their urls, remember the
\* focused handle; a timeout or a dead session is caught at line 77
ProcessBlackLinksCollect ==
    /\ pc = "pbl_collect"
    /\ extracted_texts' = [title |-> <<>>, text |-> <<>>]
    /\ url_i' = 1
    /\ open_log' = <<>>
    /\ IF OnListing /\ CurrentPage.links > 0
          THEN /\ urls' = [i \in 1..CurrentPage.links |-> <<Len(seen), i>>]
               /\ original_window' = current
               /\ pc' = "pbl_open"
          ELSE /\ urls' = <<>>
               /\ pc' = "pbl_ret"
               /\ UNCHANGED original_window
    /\ UNCHANGED <<exc, mainVars, driverVars, topicVars, imageVars, ret>>

\* lines 66-68: next url: window.open in a new tab and switch to it
ProcessBlackLinksOpen ==
    /\ pc = "pbl_open"
    /\ IF url_i <= Len(urls)
          THEN /\ open_log' = Append(open_log, urls[url_i])
               /\ \/ /\ tabs' = Append(tabs, "paper")
                     /\ current' = Len(tabs) + 1
                     /\ pc' = "pbl_extract"
                     /\ UNCHANGED alive
                  \/ /\ alive' = FALSE
                     /\ pc' = "pbl_ret"
                     /\ UNCHANGED <<tabs, current>>
          ELSE /\ pc' = "pbl_ret"
               /\ UNCHANGED <<alive, tabs, current, open_log>>
    /\ UNCHANGED <<exc, mainVars, session, quit_calls, topicVars, imageVars,
                   extracted_texts, urls, url_i, original_window, ret>>

\* line 69, the call: the paper page renders unless the listing page marks
\* the link bad
ProcessBlackLinksExtract ==
    /\ pc = "pbl_extract"
    /\ \E page \in PaperPages :
          /\ Renders(page) <=> url_i \notin CurrentPage.bad
          /\ ret' = ExtractTextFromPage(page, urls[url_i])
    /\ pc' = "pbl_unpack"
    /\ UNCHANGED <<exc, mainVars, driverVars, topicVars, imageVars,
                   extracted_texts, urls, url_i, original_window, open_log>>

\* faulty variant: a failed extraction is tried again
ProcessBlackLinksUnpack_Retry ==
    /\ pc = "pbl_unpack"
    /\ IF Len(ret) = 2
          THEN /\ extracted_texts' = AppendPair(extracted_texts, ret[1], ret[2])
               /\ pc' = "pbl_close"
          ELSE /\ pc' = "pbl_open"
               /\ UNCHANGED extracted_texts
    /\ ret' = EmptyString
    /\ UNCHANGED <<exc, mainVars, driverVars, topicVars, imageVars, urls,
                   url_i, original_window, open_log>>

\* lines 69-73: title, text = <returned value>, which raises ValueError
\* unless the value has two elements (caught at line 77); then both appends,
\* taken as one step: nothing runs, waits or raises between lines 72 and 73
ProcessBlackLinksUnpack ==
    /\ pc = "pbl_unpack"
    /\ IF Len(ret) = 2
          THEN /\ extracted_texts' = AppendPair(extracted_texts, ret[1], ret[2])
               /\ pc' = "pbl_close"
          ELSE /\ pc' = "pbl_ret"
               /\ UNCHANGED extracted_texts
    /\ ret' = EmptyString
    /\ UNCHANGED <<exc, mainVars, driverVars, topicVars, imageVars, urls,
                   url_i, original_window, open_log>>

\* line 74: driver.close() closes the focused tab
ProcessBlackLinksClose ==
    /\ pc = "pbl_close"
    /\ \/ /\ tabs' = SubSeq(tabs, 1, Len(tabs) - 1)
          /\ current' = 0
          /\ pc' = "pbl_switch"
          /\ UNCHANGED alive
       \/ /\ alive' = FALSE
          /\ pc' = "pbl_ret"
          /\ UNCHANGED <<tabs, current>>
    /\ UNCHANGED <<exc, mainVars, session, quit_calls, topicVars, imageVars,
                   linkVars>>

\* lines 75-76: driver.switch_to.window(original_window)
ProcessBlackLinksSwitch ==
    /\ pc = "pbl_switch"
    /\ \/ /\ current' = original_window
          /\ url_i' = url_i + 1
          /\ pc' = "pbl_open"
          /\ UNCHANGED alive
       \/ /\ alive' = FALSE
          /\ pc' = "pbl_ret"
          /\ UNCHANGED <<current, url_i>>
    /\ UNCHANGED <<exc, mainVars, session, quit_calls, tabs, topicVars,
                   imageVars, extracted_texts, urls, original_window, open_log,
                   ret>>

\* line 79 and line 95: return extracted_texts;
\* extracted_titles_texts.append(extracted_contents)
ProcessBlackLinksReturn ==
    /\ pc = "pbl_ret"
    /\ extracted_titles_texts' = Append(extracted_titles_texts, extracted_texts)
    /\ pc' = "pmi_next"
    /\ extracted_texts' = [title |-> <<>>, text |-> <<>>]
    /\ urls' = <<>>
    /\ url_i' = 1
    /\ original_window' = 0
    /\ open_log' = <<>>
    /\ UNCHANGED <<exc, mainVars, driverVars, topicVars, page_counter, seen, ret>>

(* ----------------------- process_method_image -------------------------- *)
\* lines 88-92: driver.get(method_image_url), which is outside every try
ProcessMethodImageGet ==
    /\ pc = "pmi_get"
    /\ extracted_titles_texts' = <<>>
    /\ page_counter' = 0
    /\ \/ /\ ~alive
          /\ Raise
          /\ UNCHANGED <<alive, tabs, seen>>
       \/ /\ alive
          /\ alive' = FALSE
          /\ Raise
          /\ UNCHANGED <<tabs, seen>>
       \/ /\ alive
          /\ \E page \in ListingPages(1) : seen' = <<page>>
          /\ tabs' = [tabs EXCEPT ![current] = "listing"]
          /\ pc' = "pmi_loop"
          /\ UNCHANGED <<exc, alive>>
    /\ UNCHANGED <<mainVars, session, quit_calls, current, topicVars, linkVars>>

\* faulty variant: the loop test is page_counter <= 10
ProcessMethodImageLoop_OffByOne ==
    /\ pc = "pmi_loop"
    /\ pc' = IF page_counter <= PageCap THEN "pbl_collect" ELSE "pmi_ret"
    /\ UNCHANGED <<exc, mainVars, driverVars, topicVars, imageVars, linkVars>>

\* lines 93-94: the loop test and the call of process_black_links
ProcessMethodImageLoop ==
    /\ pc = "pmi_loop"
    /\ pc' = IF page_counter < PageCap THEN "pbl_collect" ELSE "pmi_ret"
    /\ UNCHANGED <<exc, mainVars, driverVars, topicVars, imageVars, linkVars>>

\* lines 96-113: wait for a clickable next control on the focused tab, click
\* it, count the page, stop on the disabled marker; any exception stops too.
\* A control carrying the disabled marker may or may not pass the driver's
\* clickability test; clicking it loads nothing.
ProcessMethodImageNext ==
    /\ pc = "pmi_next"
    /\ \/ /\ ~OnListing \/ CurrentPage.next # "active"
          /\ pc' = "pmi_ret"
          /\ UNCHANGED <<page_counter, seen>>
       \/ /\ OnListing /\ CurrentPage.next = "disabled"
          /\ page_counter' = page_counter + 1
          /\ pc' = "pmi_ret"
          /\ UNCHANGED seen
       \/ /\ OnListing /\ CurrentPage.next = "active"
          /\ \E page \in ListingPages(Len(seen) + 1) :
                /\ seen' = Append(seen, page)
                /\ pc' = IF page.next = "disabled" THEN "pmi_ret" ELSE "pmi_loop"
          /\ page_counter' = page_counter + 1
    /\ UNCHANGED <<exc, mainVars, driverVars, topicVars, extracted_titles_texts,
                   linkVars>>

\* line 114 and line 148: return extracted_titles_texts;
\* results[link] = titles_texts
ProcessMethodImageReturn ==
    /\ pc = "pmi_ret"
    /\ results' = Put(results, method_links[link_i], extracted_titles_texts)
    /\ link_i' = link_i + 1
    /\ pc' = "ptl_links"
    /\ extracted_titles_texts' = <<>>
    /\ page_counter' = 0
    /\ seen' = <<>>
    /\ harvest_log' = [harvest_log EXCEPT ![Len(harvest_log)] =
                            [link |-> method_links[link_i],
                             pages |-> extracted_titles_texts, done |-> TRUE]]
    /\ UNCHANGED <<exc, mainVars, driverVars, topic_page, method_divs, div_i,
                   method_links,
                   linkVars>>

(* ------------------------------- Spec ---------------------------------- *)
Next ==
    \/ FetchInitialData
    \/ SetupDriver
    \/ MainLoop
    \/ Finally
    \/ SaveResults
    \/ ProcessTopicLinkGet
    \/ ProcessTopicLinkDivs
    \/ ProcessTopicLinkLinks
    \/ ProcessTopicLinkReturn
    \/ ProcessMethodImageGet
    \/ ProcessMethodImageLoop
    \/ ProcessMethodImageNext
    \/ ProcessMethodImageReturn
    \/ ProcessBlackLinksCollect
    \/ ProcessBlackLinksOpen
    \/ ProcessBlackLinksExtract
    \/ ProcessBlackLinksUnpack
    \/ ProcessBlackLinksClose
    \/ ProcessBlackLinksSwitch
    \/ ProcessBlackLinksReturn

Spec == Init /\ [][Next]_vars

(* ------------------------------ claims --------------------------------- *)
\* the links 1..n of a listing page that are not in bad, in link order
RECURSIVE GoodLinks(_, _)
GoodLinks(n, bad) ==
    IF n = 0 THEN <<>>
    ELSE IF n \in bad THEN GoodLinks(n - 1, bad)
         ELSE Append(GoodLinks(n - 1, bad), n)

\* the page entry holding one pair for each rendering paper of page k
FullEntry(k) ==
    LET g == GoodLinks(seen[k].links, seen[k].bad)
    IN  [title |-> [j \in 1..Len(g) |-> Title(<<k, g[j]>>)],
         text |-> [j \in 1..Len(g) |-> Text(<<k, g[j]>>)]]

\* every paper of every listing page loaded so far renders, and every such
\* page shows at least one paper link
AllRender == \A k \in 1..Len(seen) : seen[k].links >= 1 /\ seen[k].bad = {}

\* C1: when process_black_links has returned on a listing page (the session
\* answering), the page entry it produced holds exactly one title/text pair
\* for each link whose paper page renders, in link order, whichever subset
\* of the paper pages fails.
C1_OnePairPerRenderingLink ==
    (pc = "pmi_next" /\ alive)
        => extracted_titles_texts[Len(extracted_titles_texts)]
             = FullEntry(Len(seen))

\* C2: a harvest of a listing of N < 10 real pages, every page with links and
\* every paper rendering, returns N page entries, the k-th holding the papers
\* of page k, and ends before page_counter reaches 10, with either kind of
\* last page.
C2_PageCountEqualsRealPages ==
    (/\ pc = "pmi_ret"
     /\ alive
     /\ AllRender
     /\ CurrentPage.next # "active"
     /\ Len(seen) < PageCap)
        => /\ Len(extracted_titles_texts) = Len(seen)
           /\ \A k \in 1..Len(seen) : extracted_titles_texts[k] = FullEntry(k)
           /\ page_counter < PageCap

\* C3: a harvest of a listing of 10 or more real pages (all with links, all
\* papers rendering) never clicks next more than 9 times, never loads an
\* 11th listing page, and returns exactly 10 page entries.
C3_NoEleventhNavigation ==
    (alive /\ seen # <<>> /\ AllRender /\ Len(seen) >= PageCap)
        => /\ page_counter <= PageCap - 1
           /\ Len(seen) <= PageCap
           /\ pc = "pmi_ret" => Len(extracted_titles_texts) = PageCap

\* C4: before the next paper link is opened and when process_black_links
\* returns (the session answering), no paper tab is open and the focused tab
\* is the listing, whether the extraction succeeded or failed.
C4_TabsClosedFocusRestored ==
    (pc \in {"pbl_open", "pbl_ret"} /\ alive)
        => /\ \A h \in 1..Len(tabs) : tabs[h] # "paper"
           /\ current # 0
           /\ tabs[current] = "listing"

\* every page entry the program holds: the one being filled, the ones
\* collected by the running harvest, and the ones stored in the result dicts
\* and in the written documents
TopicEntries(tr) ==
    UNION {{tr[g][k] : k \in 1..Len(tr[g])} : g \in DOMAIN tr}

DictEntries(d) == UNION {TopicEntries(d[t]) : t \in DOMAIN d}

PageEntries ==
    {extracted_texts}
        \cup {extracted_titles_texts[k] : k \in 1..Len(extracted_titles_texts)}
        \cup TopicEntries(results)
        \cup DictEntries(overall_results)
        \cup UNION {DictEntries(saved_files[i].detailed_results) :
                        i \in 1..Len(saved_files)}

\* C5: in every reachable state, also after extraction failures and after
\* exceptions raised by driver.close() or switch_to.window(), every page
\* entry has a title list and a text list of equal length.
C5_TitleTextSameLength ==
    \A e \in PageEntries : Len(e.title) = Len(e.text)

\* a pair was appended, then closing its tab or switching back raised
C5_Witness ==
    /\ pc = "pbl_ret"
    /\ ~alive
    /\ Len(extracted_texts.title) >= 1
    /\ Len(extracted_titles_texts) >= 1

\* entry e of listing page k holds only pairs of rendering papers of that
\* page, each title beside its own text, in increasing link order
OnlyRenderedPairs(e, k) ==
    /\ Len(e.title) = Len(e.text)
    /\ \A j \in 1..Len(e.title) :
          \E i \in (1..seen[k].links) \ seen[k].bad :
              /\ e.title[j] = Title(<<k, i>>)
              /\ e.text[j] = Text(<<k, i>>)
    /\ \A j1, j2 \in 1..Len(e.title) :
          j1 < j2 => e.title[j1][3] < e.title[j2][3]

\* C6: a paper whose page does not render adds nothing to the title list and
\* nothing to the text list of its page entry, no placeholder either: every
\* page entry of the running harvest holds only pairs of rendering papers,
\* and the step that meets the failed extraction leaves the lists as they
\* were.
C6_FailedPaperAddsNothing ==
    /\ [](/\ seen # <<>> => OnlyRenderedPairs(extracted_texts, Len(seen))
          /\ \A k \in 1..Len(extracted_titles_texts) :
                OnlyRenderedPairs(extracted_titles_texts[k], k))
    /\ [][(pc = "pbl_extract" /\ url_i \in CurrentPage.bad /\ pc' = "pbl_unpack")
            => (extracted_texts' = extracted_texts /\ Len(ret') # 2)]_vars
    /\ [][pc = "pbl_unpack"
            => /\ Len(extracted_texts'.title) <= Len(extracted_texts.title) + 1
               /\ \A j \in 1..Len(extracted_texts.title) :
                      /\ extracted_texts'.title[j] = extracted_texts.title[j]
                      /\ extracted_texts'.text[j] = extracted_texts.text[j]]_vars

\* the second paper of a page failed after the first was appended
C6_Witness ==
    /\ pc = "pbl_ret"
    /\ alive
    /\ current # 0
    /\ tabs[current] = "paper"
    /\ url_i = 2
    /\ extracted_texts.title = <<Title(<<Len(seen), 1>>)>>

\* C7: after a paper extraction failed on listing page k < 10 that has a next
\* page, the harvest does not end there (the session answering): it clicks
\* on to page k+1; and the topics after it are still crawled.
C7_SiblingsProceedAfterFailure ==
    /\ (/\ pc = "pmi_ret"
        /\ alive
        /\ Len(seen) < PageCap
        /\ CurrentPage.bad # {})
          => CurrentPage.next # "active"
    /\ pc \in {"save", "done"} => Len(crawl_log) = Len(extracted_info)

\* the positions after the try/finally of main
AfterTry == {"save", "done", "crashed"}

\* C8: once opened, the session is closed exactly once, when the topic loop
\* completes and when an uncaught error breaks it, and the program touches
\* the session no more after closing it.
C8_SessionClosedOnce ==
    /\ [](quit_calls <= 1)
    /\ []((pc \in {"done", "crashed"} /\ session # "none")
            => (session = "quit" /\ quit_calls = 1))
    /\ [](session = "quit" => pc \in AfterTry)
    /\ [][session = "quit" => UNCHANGED driverVars]_vars
    /\ (session = "open") ~> (session = "quit")

\* a session failure broke the topic loop and the session was closed
C8_Witness ==
    /\ pc = "crashed"
    /\ exc
    /\ session = "quit"
    /\ quit_calls = 1
    /\ crawl_log # <<>>

\* C9: the document is written at most once, only after the static fetch
\* returned, every topic was processed and the session was closed; a run
\* ended by an uncaught error writes no document.
C9_DocumentWrittenOnceAtEnd ==
    /\ Len(saved_files) <= 1
    /\ saved_files # <<>>
         => /\ pc = "done"
            /\ ~exc
            /\ session = "quit"
            /\ index = Len(extracted_info) + 1
            /\ Len(crawl_log) = Len(extracted_info)
            /\ saved_files[1] = FinalData
    /\ (pc = "crashed" \/ exc) => saved_files = <<>>

\* a document holding results was written
C9_Witness ==
    /\ pc = "done"
    /\ Len(saved_files) = 1
    /\ DictEntries(saved_files[1].detailed_results) # {}

\* the topic links of the catalog, in catalog order
CatalogLinks == [i \in 1..Len(extracted_info) |-> extracted_info[i].topic_link]

\* C10: process_topic_link is called once per topic summary, in catalog
\* order; only a session failure stops the loop, so that without one every
\* topic link ends as a key of overall_results; a topic page without
\* method-image containers leaves an empty mapping under its key.
C10_EveryTopicCrawledInOrder ==
    /\ Len(crawl_log) <= Len(extracted_info)
    /\ crawl_log = SubSeq(CatalogLinks, 1, Len(crawl_log))
    /\ exc => ~alive
    /\ pc \in {"save", "done"}
         => /\ crawl_log = CatalogLinks
            /\ DOMAIN overall_results = {CatalogLinks[i] : i \in 1..Len(CatalogLinks)}
    /\ (pc = "loop" /\ index > 1 /\ method_divs = <<>>)
         => overall_results[extracted_info[index - 1].topic_link] = EmptyDict

\* the first topic showed no container, the second one was harvested
C10_Witness ==
    /\ pc = "done"
    /\ alive
    /\ Len(extracted_info) = 2
    /\ extracted_info[1].topic_link # extracted_info[2].topic_link
    /\ overall_results[extracted_info[1].topic_link] = EmptyDict
    /\ overall_results[extracted_info[2].topic_link] # EmptyDict

LiveSpec == Spec /\ WF_vars(Next)

\* the positions inside process_topic_link after the topic page has loaded,
\* and those of them after the loop that extracts the links
TopicPcs ==
    {"ptl_divs", "ptl_links", "ptl_ret", "pmi_get", "pmi_loop", "pmi_next",
     "pmi_ret", "pbl_collect", "pbl_open", "pbl_extract", "pbl_unpack",
     "pbl_close", "pbl_switch", "pbl_ret"}

HarvestPcs == TopicPcs \ {"ptl_divs", "ptl_links", "ptl_ret"}

\* the links of the containers cs that have one, in discovery order
RECURSIVE LinksOf(_)
LinksOf(cs) ==
    IF cs = <<>> THEN <<>>
    ELSE IF cs[1] = 0 THEN LinksOf(Tail(cs))
         ELSE <<cs[1]>> \o LinksOf(Tail(cs))

\* C11: process_topic_link considers the first 20 containers of the topic
\* page only, skips a container without a link and keeps the others, calls
\* process_method_image once per extracted link, one call after the other in
\* discovery order, and returns a mapping whose keys are the extracted links,
\* each with the result of a harvest started from that link in this crawl.
C11_First20GroupsInOrder ==
    pc \in TopicPcs =>
        /\ Len(method_divs) <= GroupCap
        /\ Len(method_divs) <= Len(topic_page)
        /\ Len(method_divs) < GroupCap => Len(method_divs) = Len(topic_page)
        /\ \A i \in 1..Len(method_divs) : method_divs[i] = topic_page[i]
        /\ pc # "ptl_divs" => method_links = LinksOf(method_divs)
        /\ Len(harvest_log) <= Len(method_links)
        /\ \A i \in 1..Len(harvest_log) :
              /\ harvest_log[i].link = method_links[i]
              /\ harvest_log[i].done <=> (i < Len(harvest_log) \/ pc \notin HarvestPcs)
        /\ pc \in HarvestPcs => Len(harvest_log) = link_i
        /\ pc = "ptl_ret" =>
              /\ Len(harvest_log) = Len(method_links)
              /\ DOMAIN results = {method_links[i] : i \in 1..Len(method_links)}
              /\ \A l \in DOMAIN results :
                    \E i \in 1..Len(harvest_log) :
                        /\ harvest_log[i].link = l
                        /\ harvest_log[i].pages = results[l]

\* a page of 21 containers, one of the first 20 without a link, was crawled
C11_Witness ==
    /\ pc = "ptl_ret"
    /\ alive
    /\ Len(topic_page) = GroupCap + 1
    /\ Len(harvest_log) = GroupCap - 1
    /\ Cardinality(DOMAIN results) > 1

\* C12: when the entry listing page of a group shows no paper link, the
\* harvest returns a sequence that is not empty and whose entry for that
\* page has an empty title list and an empty text list.
C12_EmptyPageYieldsEmptyEntry ==
    (pc = "pmi_ret" /\ seen # <<>> /\ seen[1].links = 0)
        => /\ Len(extracted_titles_texts) >= 1
           /\ extracted_titles_texts[1] = [title |-> <<>>, text |-> <<>>]

\* a harvest of a single page without links returns
C12_Witness ==
    /\ pc = "pmi_ret"
    /\ alive
    /\ Len(seen) = 1
    /\ seen[1].links = 0
    /\ extracted_titles_texts = <<[title |-> <<>>, text |-> <<>>]>>

\* C13: once the listing has loaded, process_method_image terminates and
\* returns between 1 and 10 page entries, whatever the number of real pages,
\* the waits that time out and the extractions that fail.
C13_HarvestReturnsOneToTenPages ==
    /\ [](Len(extracted_titles_texts) <= PageCap)
    /\ [](pc = "pmi_ret" => Len(extracted_titles_texts) >= 1)
    /\ (pc = "pmi_loop") ~> (pc = "pmi_ret")

\* the cap ended a harvest of a listing that has more pages
C13_Witness ==
    /\ pc = "pmi_ret"
    /\ Len(extracted_titles_texts) = PageCap
    /\ Len(seen) = PageCap + 1
    /\ page_counter = PageCap


(* ------------------------------- C14 ----------------------------------- *)
\* t is s without its leading and trailing white space
IsTrimOf(t, s) ==
    \E a \in 1..(Len(s) + 1), b \in 0..Len(s) :
        /\ t = SubSeq(s, a, b)
        /\ \A i \in 1..Len(s) : (i < a \/ i > b) => s[i] \in WhiteSpace
        /\ t # <<>> => (t[1] \notin WhiteSpace /\ t[Len(t)] \notin WhiteSpace)

\* the substrings of s
Substrings(s) == {SubSeq(s, a, b) : a \in 1..(Len(s) + 1), b \in 0..Len(s)}

\* the separator stands at position i of c
SeparatorAt(c, i) == i + 2 <= Len(c) /\ SubSeq(c, i, i + 2) = Separator

\* m is the method row the claim describes for the cells of row
RowAgrees(m, topic_name, row) ==
    /\ m.topic_name = topic_name
    /\ IsTrimOf(m.year, row[2])
    /\ IsTrimOf(m.num_papers, row[3])
    /\ \E c \in Substrings(row[1]) :
        /\ IsTrimOf(c, row[1])
        /\ IF \E i \in 1..Len(c) : SeparatorAt(c, i)
              THEN \E i \in 1..Len(c) :
                    /\ SeparatorAt(c, i)
                    /\ \A j \in 1..(i - 1) : ~SeparatorAt(c, j)
                    /\ IsTrimOf(m.method, SubSeq(c, 1, i - 1))
                    /\ m.paper_name = Some(SubSeq(c, i + 3, Len(c)))
              ELSE /\ m.paper_name = None
                   /\ m.method = c

\* the rows of at least three cells of the cards of page, in page order,
\* each with the name of its topic
RECURSIVE WideRows(_)
WideRows(page) ==
    IF page = <<>> THEN <<>>
    ELSE LET wide == SelectSeq(Head(page).rows, LAMBDA r : Len(r) >= 3)
         IN [k \in 1..Len(wide) |->
                [topic_name |-> Head(page).link, row |-> wide[k]]]
            \o WideRows(Tail(page))

\* fetch_initial_data has returned its two lists to main
FetchReturned == pc \notin {"fetch", "crashed"} \/ session # "none"

\* C14: once the fetch has returned, the method list holds one row per
\* table row of at least three cells, in order; when the trimmed first
\* cell contains the triple-newline separator, method is the trimmed text
\* before the first separator and paper_name the text after it; when it does
\* not, paper_name is None and method is the whole trimmed cell.
C14_MethodRowSplitsAtFirstSeparator ==
    FetchReturned =>
        LET wide == WideRows(catalog)
        IN /\ Len(methods) = Len(wide)
           /\ \A k \in 1..Len(wide) :
                RowAgrees(methods[k], wide[k].topic_name, wide[k].row)

\* a cell with four newlines in a row: two places where the separator
\* stands, the cut is at the first and the paper name keeps the fourth
C14_Witness ==
    /\ FetchReturned
    /\ Len(methods) = 1
    /\ catalog[1].rows[1][1] = <<"x", "\n", "\n", "\n", "\n", "x">>
    /\ methods[1].method = <<"x">>
    /\ methods[1].paper_name = Some(<<"\n", "x">>)


(* ------------------------------- C15 ----------------------------------- *)
\* the elements of a sequence
Range(s) == {s[i] : i \in 1..Len(s)}

\* C15: a card of the fetched catalog that lacks its count containers does
\* not abort the fetch: the summary and the method rows of every other card
\* are returned to main.
C15_DefectiveCardDoesNotAbortFetch ==
    (pc # "fetch" /\ \E i \in 1..Len(catalog) : ~catalog[i].counts) =>
        \A j \in 1..Len(catalog) :
            catalog[j].counts =>
                /\ [topic_link |-> catalog[j].link] \in Range(extracted_info)
                /\ Range(GetTopicMethodInfo(catalog[j])) \subseteq Range(methods)


(* ------------------------------- C16 ----------------------------------- *)
\* C16: a listing page on which no paper link appears ends the pagination
\* loop: the harvest does not go on to the wait for the next control, no
\* click is counted for that page and no page is loaded after it.
C16_NoLinksEndsPagination ==
    \A k \in 1..Len(seen) :
        seen[k].links = 0 =>
            /\ pc # "pmi_next"
            /\ k = Len(seen)
            /\ page_counter = k - 1


C18_LinksReadBeforeNavigation ==
    /\ pc = "ptl_divs" =>
        /\ current # 0
        /\ tabs[current] = "topic"
        /\ harvest_log = <<>>
    /\ harvest_log # <<>> =>
        /\ div_i = Len(method_divs) + 1
        /\ method_links = LinksOf(method_divs)
    /\ open_log # <<>> =>
        urls = [i \in 1..CurrentPage.links |-> <<Len(seen), i>>]

\* two containers, the second without a link: the harvest of the first is
\* opening its paper after both were visited
C18_Witness ==
    /\ pc = "pbl_extract"
    /\ method_divs = <<1, 0>>
    /\ div_i = 3
    /\ Len(harvest_log) = 1
    /\ open_log = urls


(* ------------------------------- C19 ----------------------------------- *)
\* the harvests of this topic crawl that have returned, in order
DoneHarvests == SelectSeq(harvest_log, LAMBDA h : h.done)

\* the topic links whose crawl has returned, in order
DoneCrawls == SubSeq(crawl_log, 1, Len(crawl_rets))

\* the last position of link l in the sequence of links ls
LastOf(ls, l) ==
    CHOOSE i \in 1..Len(ls) : ls[i] = l /\ \A j \in (i + 1)..Len(ls) : ls[j] # l

\* C19: a harvest is run for every occurrence of a group link and a crawl
\* for every occurrence of a topic link, but a result mapping has one key
\* per distinct link, and the key holds what the last run for that link
\* returned.
C19_OneKeyPerLinkLastRunKept ==
    /\ pc = "ptl_ret" => Len(harvest_log) = Len(method_links)
    /\ DOMAIN results = {DoneHarvests[i].link : i \in 1..Len(DoneHarvests)}
    /\ \A l \in DOMAIN results :
        LET links == [i \in 1..Len(DoneHarvests) |-> DoneHarvests[i].link]
        IN results[l] = DoneHarvests[LastOf(links, l)].pages
    /\ pc \in {"save", "done"} => Len(crawl_rets) = Len(extracted_info)
    /\ DOMAIN overall_results = {DoneCrawls[i] : i \in 1..Len(DoneCrawls)}
    /\ \A l \in DOMAIN overall_results :
        overall_results[l] = crawl_rets[LastOf(DoneCrawls, l)]

\* two containers with the same link whose harvests returned different
\* pages: two harvests, one key, the second result
C19_Witness ==
    /\ pc = "ptl_ret"
    /\ Len(harvest_log) = 2
    /\ harvest_log[1].link = harvest_log[2].link
    /\ harvest_log[1].pages # harvest_log[2].pages
    /\ Cardinality(DOMAIN results) = 1
    /\ results[harvest_log[2].link] = harvest_log[2].pages

====
